---- MODULE Spec2Model ----
(***************************************************************************)
(* The two browser verification scripts of the repository,                 *)
(*   verification/verify_lesson.py       (script "verify_lesson")          *)
(*   verification/verify_lesson_page.py  (script "verify_lesson_page")     *)
(* as one state machine.  One execution runs one of the two scripts.  The  *)
(* script is sequential; the web application is the environment: every     *)
(* call on the page that waits for the application (goto, click, fill,     *)
(* wait_for_selector, wait_for_url, is_visible) either returns or raises,  *)
(* and the page emits console messages and page errors while the script    *)
(* runs.  Fixed timers, print, screenshot, launch and close return.        *)
(***************************************************************************)
EXTENDS Naturals, Sequences, FiniteSets

VARIABLES
    script,     \* which of the two scripts this execution runs
    pc,         \* position of the script
    browser,    \* "none" | "open" | "closed" (closed: browser.close() was performed)
    launches,   \* number of chromium.launch calls performed
    url,        \* page.url
    calls,      \* the calls made on the page/browser so far, with their results
    files,      \* screenshot paths written, in order
    log,        \* lines printed to stdout, in order: <<text, argument>>
    exc,        \* the exception in flight ("none" when there is none)
    outcome,    \* "running" | "ok" (normal exit) | "raised" (uncaught exception)
    handlers,   \* page events that have a registered handler
    emitted     \* events the page has emitted, in emission order: <<kind, text>>

vars == <<script, pc, browser, launches, url, calls, files, log, exc, outcome,
          handlers, emitted>>

\* ---------------------------------------------------------------- bounds
MaxProfiles == 2
MaxEvents == 2

\* ------------------------------------------------------------- constants
Scripts == {"verify_lesson", "verify_lesson_page"}

Root == "http://localhost:5173/"
ProfilesUrl == "http://localhost:5173/profiles"
Lesson1Url == "http://localhost:5173/lesson/1"
Lesson2Url == "http://localhost:5173/lesson/2"

Lesson1Png == "verification/lesson_1_board.png"
Lesson2Png == "verification/lesson_2_board.png"
LessonPagePng == "verification/lesson_page.png"
ErrorPng == "verification/error_screenshot.png"

\* The events the page can emit: console messages and page errors.
Events == {<<"console", "m1">>, <<"pageerror", "e1">>}

\* Calls that are fixed timers: they cannot raise.
Timers == {"wait_for_timeout(2000)", "wait_for_timeout(500)",
           "wait_for_timeout(1000)", "time.sleep(2)"}

Digits == <<"0", "1", "2", "3", "4", "5", "6", "7", "8", "9">>

\* str(count) inside the f-string of verify_lesson_page.py line 22
CountStr(n) == Digits[n + 1]

\* ---------------------------------------------------------------- helpers
Call(c, r) == [c |-> c, r |-> r]

\* The indices of cs at which the application can make the call raise.
FailPoints(cs) == {i \in 1..Len(cs) : cs[i] \notin Timers}

\* The calls performed when the statements cs run in order and the k-th
\* raises (k = 0: none raises): everything after the raising call is skipped.
Attempt(cs, k) ==
    [i \in 1..(IF k = 0 THEN Len(cs) ELSE k) |->
        Call(cs[i], IF i = k THEN "raise" ELSE "ok")]

\* "/profiles" in page.url
OnProfiles(u) == u = ProfilesUrl

Line(text, arg) == <<text, arg>>

\* ------------------------------------------------------------------ Init
Init ==
    /\ script \in Scripts
    /\ pc = "launch"
    /\ browser = "none"
    /\ launches = 0
    /\ url = "about:blank"
    /\ calls = <<>>
    /\ files = <<>>
    /\ log = <<>>
    /\ exc = "none"
    /\ outcome = "running"
    /\ handlers = {}
    /\ emitted = <<>>

\* =========================================================================
\* verify_lesson.py
\* =========================================================================

\* p.chromium.launch(headless=True); browser.new_page()
A_Launch ==
    /\ script = "verify_lesson" /\ pc = "launch"
    /\ browser' = "open"
    /\ launches' = launches + 1
    /\ calls' = calls \o <<Call("launch", "ok"), Call("new_page", "ok")>>
    /\ pc' = "A_goto_root"
    /\ UNCHANGED <<script, url, files, log, exc, outcome, handlers, emitted>>

\* print; page.goto(root); page.wait_for_timeout(2000).  The application
\* may have redirected to the profiles page by the time the timer ends.
A_GotoRoot ==
    /\ script = "verify_lesson" /\ pc = "A_goto_root"
    /\ LET cs == <<"goto(/)", "wait_for_timeout(2000)">> IN
       \E k \in {0} \cup FailPoints(cs) :
         /\ calls' = calls \o Attempt(cs, k)
         /\ IF k = 0
            THEN /\ url' \in {Root, ProfilesUrl}
                 /\ pc' = "A_check_profiles"
                 /\ exc' = exc
            ELSE /\ url' = url
                 /\ pc' = "A_main_except"
                 /\ exc' = cs[k]
    /\ log' = Append(log, Line("Navigating to root...", ""))
    /\ UNCHANGED <<script, browser, launches, files, outcome, handlers, emitted>>

\* if "/profiles" in page.url: print; try: if .add-profile is_visible()
A_CheckProfiles ==
    /\ script = "verify_lesson" /\ pc = "A_check_profiles"
    /\ IF OnProfiles(url)
       THEN /\ log' = Append(log, Line("On profiles page", ""))
            /\ \E r \in {"true", "false", "raise"} :
                 /\ calls' = Append(calls, Call("is_visible(.add-profile)", r))
                 /\ pc' = CASE r = "true" -> "A_add_profile"
                            [] r = "false" -> "A_select_profile"
                            [] OTHER -> "A_profile_except"
                 /\ exc' = IF r = "raise" THEN "is_visible(.add-profile)" ELSE exc
       ELSE /\ pc' = "A_goto_lesson1"
            /\ UNCHANGED <<log, calls, exc>>
    /\ UNCHANGED <<script, browser, launches, url, files, outcome, handlers, emitted>>

\* the add-player branch: click, timer, fill, click Let's Play!, wait_for_url
A_AddProfile ==
    /\ script = "verify_lesson" /\ pc = "A_add_profile"
    /\ LET cs == <<"click(.add-profile)", "wait_for_timeout(500)",
                   "fill(#profile-name,TestUser)", "click(Let's Play!)",
                   "wait_for_url(/)">> IN
       \E k \in {0} \cup FailPoints(cs) :
         /\ calls' = calls \o Attempt(cs, k)
         /\ IF k = 0
            THEN /\ url' = Root
                 /\ pc' = "A_goto_lesson1"
                 /\ exc' = exc
            ELSE /\ url' = url
                 /\ pc' = "A_profile_except"
                 /\ exc' = cs[k]
    /\ log' = Append(log, Line("Clicking Add Player", ""))
    /\ UNCHANGED <<script, browser, launches, files, outcome, handlers, emitted>>

\* elif .profile-content-btn count() > 0: print; first.click(); wait_for_url.
\* With no profile button nothing is done and the try block ends normally.
A_SelectProfile ==
    /\ script = "verify_lesson" /\ pc = "A_select_profile"
    /\ \E n \in 0..MaxProfiles :
         LET counted == Append(calls, Call("count(.profile-content-btn)", CountStr(n)))
             cs == <<"click(.profile-content-btn.first)", "wait_for_url(/)">>
         IN  IF n > 0
             THEN /\ log' = Append(log, Line("Selecting existing profile", ""))
                  /\ \E k \in {0} \cup FailPoints(cs) :
                       /\ calls' = counted \o Attempt(cs, k)
                       /\ IF k = 0
                          THEN /\ url' = Root
                               /\ pc' = "A_goto_lesson1"
                               /\ exc' = exc
                          ELSE /\ url' = url
                               /\ pc' = "A_profile_except"
                               /\ exc' = cs[k]
             ELSE /\ calls' = counted
                  /\ pc' = "A_goto_lesson1"
                  /\ UNCHANGED <<log, url, exc>>
    /\ UNCHANGED <<script, browser, launches, files, outcome, handlers, emitted>>

\* Mutant of A_ProfileExcept: the handler prints and does not re-raise.
A_ProfileExceptSwallow ==
    /\ script = "verify_lesson" /\ pc = "A_profile_except"
    /\ log' = Append(log, Line("Profile selection failed: ", exc))
    /\ exc' = "none"
    /\ pc' = "A_goto_lesson1"
    /\ UNCHANGED <<script, browser, launches, url, calls, files, outcome,
                   handlers, emitted>>

\* except Exception as e: print(f"Profile selection failed: {e}"); raise e
A_ProfileExcept ==
    /\ script = "verify_lesson" /\ pc = "A_profile_except"
    /\ log' = Append(log, Line("Profile selection failed: ", exc))
    /\ pc' = "A_main_except"
    /\ UNCHANGED <<script, browser, launches, url, calls, files, exc, outcome,
                   handlers, emitted>>

\* print; page.goto(lesson/1); page.wait_for_selector(".lesson-page")
A_GotoLesson1 ==
    /\ script = "verify_lesson" /\ pc = "A_goto_lesson1"
    /\ LET cs == <<"goto(/lesson/1)", "wait_for_selector(.lesson-page)">> IN
       \E k \in {0} \cup FailPoints(cs) :
         /\ calls' = calls \o Attempt(cs, k)
         /\ url' = IF k = 1 THEN url ELSE Lesson1Url
         /\ IF k = 0
            THEN pc' = "A_practice1" /\ exc' = exc
            ELSE pc' = "A_main_except" /\ exc' = cs[k]
    /\ log' = Append(log, Line("Navigating to lesson 1...", ""))
    /\ UNCHANGED <<script, browser, launches, files, outcome, handlers, emitted>>

\* if Let's Practice! is_visible(): click; timer.  Then the screenshot.
A_Practice1 ==
    /\ script = "verify_lesson" /\ pc = "A_practice1"
    /\ \E r \in {"true", "false", "raise"} :
         LET seen == Append(calls, Call("is_visible(Let's Practice!)", r))
             cs == <<"click(Let's Practice!)", "wait_for_timeout(1000)">>
             shot == <<Call("screenshot", Lesson1Png)>>
         IN  CASE r = "raise" ->
                   /\ calls' = seen
                   /\ pc' = "A_main_except" /\ exc' = "is_visible(Let's Practice!)"
                   /\ files' = files
               [] r = "false" ->
                   /\ calls' = seen \o shot
                   /\ files' = Append(files, Lesson1Png)
                   /\ pc' = "A_goto_lesson2" /\ exc' = exc
               [] OTHER ->
                   \E k \in {0} \cup FailPoints(cs) :
                     IF k = 0
                     THEN /\ calls' = seen \o Attempt(cs, k) \o shot
                          /\ files' = Append(files, Lesson1Png)
                          /\ pc' = "A_goto_lesson2" /\ exc' = exc
                     ELSE /\ calls' = seen \o Attempt(cs, k)
                          /\ files' = files
                          /\ pc' = "A_main_except" /\ exc' = cs[k]
    /\ UNCHANGED <<script, browser, launches, url, log, outcome, handlers, emitted>>

\* print; page.goto(lesson/2); page.wait_for_selector(".lesson-page")
A_GotoLesson2 ==
    /\ script = "verify_lesson" /\ pc = "A_goto_lesson2"
    /\ LET cs == <<"goto(/lesson/2)", "wait_for_selector(.lesson-page)">> IN
       \E k \in {0} \cup FailPoints(cs) :
         /\ calls' = calls \o Attempt(cs, k)
         /\ url' = IF k = 1 THEN url ELSE Lesson2Url
         /\ IF k = 0
            THEN pc' = "A_practice2" /\ exc' = exc
            ELSE pc' = "A_main_except" /\ exc' = cs[k]
    /\ log' = Append(log, Line("Navigating to lesson 2...", ""))
    /\ UNCHANGED <<script, browser, launches, files, outcome, handlers, emitted>>

\* if Let's Practice! is_visible(): click; timer
A_Practice2 ==
    /\ script = "verify_lesson" /\ pc = "A_practice2"
    /\ \E r \in {"true", "false", "raise"} :
         LET seen == Append(calls, Call("is_visible(Let's Practice!)", r))
             cs == <<"click(Let's Practice!)", "wait_for_timeout(1000)">>
         IN  CASE r = "raise" ->
                   /\ calls' = seen
                   /\ pc' = "A_main_except" /\ exc' = "is_visible(Let's Practice!)"
               [] r = "false" ->
                   /\ calls' = seen
                   /\ pc' = "A_wait_svg" /\ exc' = exc
               [] OTHER ->
                   \E k \in {0} \cup FailPoints(cs) :
                     /\ calls' = seen \o Attempt(cs, k)
                     /\ IF k = 0
                        THEN pc' = "A_wait_svg" /\ exc' = exc
                        ELSE pc' = "A_main_except" /\ exc' = cs[k]
    /\ UNCHANGED <<script, browser, launches, url, files, log, outcome, handlers,
                   emitted>>

\* Mutant of A_WaitSvg: the second screenshot goes to the first one's path.
A_WaitSvgSamePath ==
    /\ script = "verify_lesson" /\ pc = "A_wait_svg"
    /\ \E r \in {"ok", "raise"} :
         IF r = "ok"
         THEN /\ calls' = calls \o <<Call("wait_for_selector(svg)", "ok"),
                                     Call("screenshot", Lesson1Png)>>
              /\ files' = Append(files, Lesson1Png)
              /\ log' = Append(log, Line("Lesson 2 screenshot taken", ""))
              /\ pc' = "A_finally" /\ exc' = exc
         ELSE /\ calls' = Append(calls, Call("wait_for_selector(svg)", "raise"))
              /\ pc' = "A_main_except" /\ exc' = "wait_for_selector(svg)"
              /\ UNCHANGED <<files, log>>
    /\ UNCHANGED <<script, browser, launches, url, outcome, handlers, emitted>>

\* Mutant of A_WaitSvg: a timeout of the svg wait is ignored and the
\* screenshot is taken all the same.
A_WaitSvgIgnoreTimeout ==
    /\ script = "verify_lesson" /\ pc = "A_wait_svg"
    /\ \E r \in {"ok", "raise"} :
         /\ calls' = calls \o <<Call("wait_for_selector(svg)", r),
                                Call("screenshot", Lesson2Png)>>
         /\ files' = Append(files, Lesson2Png)
         /\ log' = Append(log, Line("Lesson 2 screenshot taken", ""))
         /\ pc' = "A_finally" /\ exc' = exc
    /\ UNCHANGED <<script, browser, launches, url, outcome, handlers, emitted>>

\* page.wait_for_selector("svg"); screenshot; print
A_WaitSvg ==
    /\ script = "verify_lesson" /\ pc = "A_wait_svg"
    /\ \E r \in {"ok", "raise"} :
         IF r = "ok"
         THEN /\ calls' = calls \o <<Call("wait_for_selector(svg)", "ok"),
                                     Call("screenshot", Lesson2Png)>>
              /\ files' = Append(files, Lesson2Png)
              /\ log' = Append(log, Line("Lesson 2 screenshot taken", ""))
              /\ pc' = "A_finally" /\ exc' = exc
         ELSE /\ calls' = Append(calls, Call("wait_for_selector(svg)", "raise"))
              /\ pc' = "A_main_except" /\ exc' = "wait_for_selector(svg)"
              /\ UNCHANGED <<files, log>>
    /\ UNCHANGED <<script, browser, launches, url, outcome, handlers, emitted>>

\* __main__: except Exception as e: print(f"Error: {e}") -- the exception
\* is handled here and goes no further.
A_MainExcept ==
    /\ script = "verify_lesson" /\ pc = "A_main_except"
    /\ log' = Append(log, Line("Error: ", exc))
    /\ exc' = "none"
    /\ pc' = "A_finally"
    /\ UNCHANGED <<script, browser, launches, url, calls, files, outcome,
                   handlers, emitted>>

\* __main__: finally: browser.close(); the with block and the script end.
A_Finally ==
    /\ script = "verify_lesson" /\ pc = "A_finally"
    /\ browser' = "closed"
    /\ calls' = Append(calls, Call("close", "ok"))
    /\ pc' = "done"
    /\ outcome' = IF exc = "none" THEN "ok" ELSE "raised"
    /\ UNCHANGED <<script, launches, url, files, log, exc, handlers, emitted>>

VerifyLesson ==
    \/ A_Launch
    \/ A_GotoRoot
    \/ A_CheckProfiles
    \/ A_AddProfile
    \/ A_SelectProfile
    \/ A_ProfileExcept
    \/ A_GotoLesson1
    \/ A_Practice1
    \/ A_GotoLesson2
    \/ A_Practice2
    \/ A_WaitSvg
    \/ A_MainExcept
    \/ A_Finally

\* =========================================================================
\* verify_lesson_page.py
\* =========================================================================

\* An exception nothing in run() catches: it leaves run() and the with block
\* and ends the process.  run() closes the browser only on its last line.
Propagate(e) ==
    /\ exc' = e
    /\ outcome' = "raised"
    /\ pc' = "done"

\* playwright.chromium.launch(headless=True); browser.new_page()
B_Launch ==
    /\ script = "verify_lesson_page" /\ pc = "launch"
    /\ browser' = "open"
    /\ launches' = launches + 1
    /\ calls' = calls \o <<Call("launch", "ok"), Call("new_page", "ok")>>
    /\ pc' = "B_register"
    /\ UNCHANGED <<script, url, files, log, exc, outcome, handlers, emitted>>

\* Mutant of B_RegisterHandlers: only the console handler is registered.
B_RegisterConsoleOnly ==
    /\ script = "verify_lesson_page" /\ pc = "B_register"
    /\ handlers' = handlers \cup {"console"}
    /\ pc' = "B_goto_root"
    /\ UNCHANGED <<script, browser, launches, url, calls, files, log, exc,
                   outcome, emitted>>

\* page.on("console", ...); page.on("pageerror", ...)
B_RegisterHandlers ==
    /\ script = "verify_lesson_page" /\ pc = "B_register"
    /\ handlers' = handlers \cup {"console", "pageerror"}
    /\ pc' = "B_goto_root"
    /\ UNCHANGED <<script, browser, launches, url, calls, files, log, exc,
                   outcome, emitted>>

\* print; page.goto(root) -- outside every try block
B_GotoRoot ==
    /\ script = "verify_lesson_page" /\ pc = "B_goto_root"
    /\ log' = Append(log, Line("Navigating to root...", ""))
    /\ \E r \in {"ok", "raise"} :
         /\ calls' = Append(calls, Call("goto(/)", r))
         /\ IF r = "ok"
            THEN /\ url' \in {Root, ProfilesUrl}
                 /\ pc' = "B_wait_heading"
                 /\ UNCHANGED <<exc, outcome>>
            ELSE /\ url' = url
                 /\ Propagate("goto(/)")
    /\ UNCHANGED <<script, browser, launches, files, handlers, emitted>>

\* try: wait_for_selector(h1 Chess Kids, 3000); print; count(); print
B_WaitHeading ==
    /\ script = "verify_lesson_page" /\ pc = "B_wait_heading"
    /\ \E r \in {"ok", "raise"} :
         IF r = "ok"
         THEN \E n \in 0..MaxProfiles :
                /\ calls' = calls \o <<Call("wait_for_selector(h1 Chess Kids)", "ok"),
                                       Call("count(.profile-content-btn)", CountStr(n))>>
                /\ log' = log \o <<Line("On Profile Select Page", ""),
                                   Line("Found existing profiles: ", CountStr(n))>>
                /\ pc' = IF n > 0 THEN "B_select_first" ELSE "B_create_profile"
                /\ exc' = exc
         ELSE /\ calls' = Append(calls, Call("wait_for_selector(h1 Chess Kids)", "raise"))
              /\ pc' = "B_profile_except"
              /\ exc' = "wait_for_selector(h1 Chess Kids)"
              /\ log' = log
    /\ UNCHANGED <<script, browser, launches, url, files, outcome, handlers, emitted>>

\* if count > 0: print; existing_profiles.first.click()
B_SelectFirst ==
    /\ script = "verify_lesson_page" /\ pc = "B_select_first"
    /\ log' = Append(log, Line("Selecting first profile...", ""))
    /\ \E r \in {"ok", "raise"} :
         /\ calls' = Append(calls, Call("click(.profile-content-btn.first)", r))
         /\ IF r = "ok"
            THEN pc' = "B_goto_lesson2" /\ exc' = exc
            ELSE pc' = "B_profile_except" /\ exc' = "click(.profile-content-btn.first)"
    /\ UNCHANGED <<script, browser, launches, url, files, outcome, handlers, emitted>>

\* else: print; if .add-profile count() > 0: click; wait input; fill; click
B_CreateProfile ==
    /\ script = "verify_lesson_page" /\ pc = "B_create_profile"
    /\ log' = Append(log, Line("Creating new profile...", ""))
    /\ \E a \in 0..1 :
         LET counted == Append(calls, Call("count(.add-profile)", CountStr(a)))
             cs == (IF a > 0 THEN <<"click(.add-profile)">> ELSE <<>>)
                   \o <<"wait_for_selector(input#profile-name)",
                        "fill(input#profile-name,TestUser)",
                        "click(Let's Play!)">>
         IN  \E k \in {0} \cup FailPoints(cs) :
               /\ calls' = counted \o Attempt(cs, k)
               /\ IF k = 0
                  THEN pc' = "B_goto_lesson2" /\ exc' = exc
                  ELSE pc' = "B_profile_except" /\ exc' = cs[k]
    /\ UNCHANGED <<script, browser, launches, url, files, outcome, handlers, emitted>>

\* Mutant of B_ProfileExcept: the handler re-raises, as verify_lesson's does.
B_ProfileExceptReraise ==
    /\ script = "verify_lesson_page" /\ pc = "B_profile_except"
    /\ log' = Append(log, Line("Not on profile select or error: ", exc))
    /\ Propagate(exc)
    /\ UNCHANGED <<script, browser, launches, url, calls, files, handlers, emitted>>

\* except Exception as e: print(f"Not on profile select or error: {e}")
B_ProfileExcept ==
    /\ script = "verify_lesson_page" /\ pc = "B_profile_except"
    /\ log' = Append(log, Line("Not on profile select or error: ", exc))
    /\ exc' = "none"
    /\ pc' = "B_goto_lesson2"
    /\ UNCHANGED <<script, browser, launches, url, calls, files, outcome,
                   handlers, emitted>>

\* print; page.goto(lesson/2) -- outside every try block
B_GotoLesson2 ==
    /\ script = "verify_lesson_page" /\ pc = "B_goto_lesson2"
    /\ log' = Append(log, Line("Navigating to Lesson 2...", ""))
    /\ \E r \in {"ok", "raise"} :
         /\ calls' = Append(calls, Call("goto(/lesson/2)", r))
         /\ IF r = "ok"
            THEN /\ url' = Lesson2Url
                 /\ pc' = "B_story_button"
                 /\ UNCHANGED <<exc, outcome>>
            ELSE /\ url' = url
                 /\ Propagate("goto(/lesson/2)")
    /\ UNCHANGED <<script, browser, launches, files, handlers, emitted>>

\* print; try: wait_for_selector(Let's Practice!, 5000); click; print
B_StoryButton ==
    /\ script = "verify_lesson_page" /\ pc = "B_story_button"
    /\ LET cs == <<"wait_for_selector(Let's Practice!)", "click(Let's Practice!)">> IN
       \E k \in {0} \cup FailPoints(cs) :
         /\ calls' = calls \o Attempt(cs, k)
         /\ IF k = 0
            THEN /\ log' = log \o <<Line("Waiting for story button...", ""),
                                    Line("Clicked story button.", "")>>
                 /\ pc' = "B_wait_board" /\ exc' = exc
            ELSE /\ log' = Append(log, Line("Waiting for story button...", ""))
                 /\ pc' = "B_story_except" /\ exc' = cs[k]
    /\ UNCHANGED <<script, browser, launches, url, files, outcome, handlers, emitted>>

\* except Exception as e: print(f"Story button not found or error: {e}")
B_StoryExcept ==
    /\ script = "verify_lesson_page" /\ pc = "B_story_except"
    /\ log' = Append(log, Line("Story button not found or error: ", exc))
    /\ exc' = "none"
    /\ pc' = "B_wait_board"
    /\ UNCHANGED <<script, browser, launches, url, calls, files, outcome,
                   handlers, emitted>>

\* Mutant of B_WaitBoard: the wait has no timeout (timeout=0), so it never
\* returns when the board does not appear.
B_WaitBoardNoTimeout ==
    /\ script = "verify_lesson_page" /\ pc = "B_wait_board"
    /\ \E r \in {"ok", "blocked"} :
         /\ calls' = Append(calls, Call("wait_for_selector(.chess-board-container)", r))
         /\ IF r = "ok"
            THEN /\ log' = log \o <<Line("Waiting for chess board...", ""),
                                    Line("Found chess board container.", "")>>
                 /\ pc' = "B_screenshot"
            ELSE /\ log' = Append(log, Line("Waiting for chess board...", ""))
                 /\ pc' = "B_wait_board_blocked"
    /\ UNCHANGED <<script, browser, launches, url, files, exc, outcome, handlers,
                   emitted>>

\* print; try: wait_for_selector(".chess-board-container", 5000); print
B_WaitBoard ==
    /\ script = "verify_lesson_page" /\ pc = "B_wait_board"
    /\ \E r \in {"ok", "raise"} :
         /\ calls' = Append(calls, Call("wait_for_selector(.chess-board-container)", r))
         /\ IF r = "ok"
            THEN /\ log' = log \o <<Line("Waiting for chess board...", ""),
                                    Line("Found chess board container.", "")>>
                 /\ pc' = "B_screenshot" /\ exc' = exc
            ELSE /\ log' = Append(log, Line("Waiting for chess board...", ""))
                 /\ pc' = "B_board_except"
                 /\ exc' = "wait_for_selector(.chess-board-container)"
    /\ UNCHANGED <<script, browser, launches, url, files, outcome, handlers, emitted>>

\* Mutant of B_BoardExcept: raise comes before the screenshot, which is
\* then never taken.
B_BoardExceptRaiseFirst ==
    /\ script = "verify_lesson_page" /\ pc = "B_board_except"
    /\ log' = Append(log, Line("Timed out waiting for chess board.", ""))
    /\ Propagate(exc)
    /\ UNCHANGED <<script, browser, launches, url, calls, files, handlers, emitted>>

\* except Exception as e: print; screenshot(error_screenshot.png); raise e
B_BoardExcept ==
    /\ script = "verify_lesson_page" /\ pc = "B_board_except"
    /\ log' = Append(log, Line("Timed out waiting for chess board.", ""))
    /\ calls' = Append(calls, Call("screenshot", ErrorPng))
    /\ files' = Append(files, ErrorPng)
    /\ Propagate(exc)
    /\ UNCHANGED <<script, browser, launches, url, handlers, emitted>>

\* time.sleep(2); print; page.screenshot(lesson_page.png)
B_Screenshot ==
    /\ script = "verify_lesson_page" /\ pc = "B_screenshot"
    /\ log' = Append(log, Line("Taking screenshot...", ""))
    /\ calls' = calls \o <<Call("time.sleep(2)", "ok"), Call("screenshot", LessonPagePng)>>
    /\ files' = Append(files, LessonPagePng)
    /\ pc' = "B_close"
    /\ UNCHANGED <<script, browser, launches, url, exc, outcome, handlers, emitted>>

\* browser.close(); run() returns, the with block and the script end.
B_Close ==
    /\ script = "verify_lesson_page" /\ pc = "B_close"
    /\ browser' = "closed"
    /\ calls' = Append(calls, Call("close", "ok"))
    /\ pc' = "done"
    /\ outcome' = "ok"
    /\ UNCHANGED <<script, launches, url, files, log, exc, handlers, emitted>>

VerifyLessonPage ==
    \/ B_Launch
    \/ B_RegisterHandlers
    \/ B_GotoRoot
    \/ B_WaitHeading
    \/ B_SelectFirst
    \/ B_CreateProfile
    \/ B_ProfileExcept
    \/ B_GotoLesson2
    \/ B_StoryButton
    \/ B_StoryExcept
    \/ B_WaitBoard
    \/ B_BoardExcept
    \/ B_Screenshot
    \/ B_Close

\* =========================================================================
\* The page's events
\* =========================================================================

\* lambda msg: print(f"BROWSER CONSOLE: {msg.text}")
ConsoleHandler(text) == Line("BROWSER CONSOLE: ", text)

\* lambda exc: print(f"BROWSER ERROR: {exc}")
PageErrorHandler(text) == Line("BROWSER ERROR: ", text)

\* What the registered handler of an event prints.
Dispatch(e) ==
    IF e[1] = "console" THEN ConsoleHandler(e[2]) ELSE PageErrorHandler(e[2])

\* Some navigation of the page has been performed.
Navigated == \E i \in 1..Len(calls) : calls[i].c \in {"goto(/)", "goto(/lesson/1)", "goto(/lesson/2)"}

\* A loaded page emits a console message or a page error while the script
\* runs; the handler registered for that kind of event, if any, prints it.
PageEvent ==
    /\ browser = "open" /\ outcome = "running"
    /\ Navigated
    /\ Len(emitted) < MaxEvents
    /\ \E e \in Events :
         /\ emitted' = Append(emitted, e)
         /\ log' = IF e[1] \in handlers THEN Append(log, Dispatch(e)) ELSE log
    /\ UNCHANGED <<script, pc, browser, launches, url, calls, files, exc, outcome,
                   handlers>>

\* =========================================================================
Step == VerifyLesson \/ VerifyLessonPage

Next == Step \/ PageEvent

Spec == Init /\ [][Next]_vars

\* Every call of the scripts blocks for a bounded time (a fixed timer, or a
\* wait with a timeout), so the running script always takes its next step.
FairSpec == Spec /\ WF_vars(Step)

Done == pc = "done"

\* =========================================================================
\* Properties
\* =========================================================================

\* The call c was made (whatever its result).
Attempted(c) == \E i \in 1..Len(calls) : calls[i].c = c

\* The call c was made and raised.
Raised(c) == \E i \in 1..Len(calls) : calls[i] = Call(c, "raise")

\* The call c was made and returned normally.
Succeeded(c) == \E i \in 1..Len(calls) : calls[i] = Call(c, "ok")

AnyRaise == \E i \in 1..Len(calls) : calls[i].r = "raise"

InSeq(x, sq) == \E i \in 1..Len(sq) : sq[i] = x

\* The waits for the elements a script requires.
RequiredWaits ==
    IF script = "verify_lesson"
    THEN {"wait_for_selector(.lesson-page)", "wait_for_selector(svg)"}
    ELSE {"wait_for_selector(.chess-board-container)"}

RequiredWaitTimedOut == \E c \in RequiredWaits : Raised(c)

\* The calls inside the try block of the profile step, per script.
ProfileCallsA == {"is_visible(.add-profile)", "click(.add-profile)",
                  "fill(#profile-name,TestUser)", "click(Let's Play!)",
                  "click(.profile-content-btn.first)", "wait_for_url(/)"}

ProfileCallsB == {"wait_for_selector(h1 Chess Kids)", "click(.profile-content-btn.first)",
                  "click(.add-profile)", "wait_for_selector(input#profile-name)",
                  "fill(input#profile-name,TestUser)", "click(Let's Play!)"}

StoryCallsB == {"wait_for_selector(Let's Practice!)", "click(Let's Practice!)"}

BoardWait == "wait_for_selector(.chess-board-container)"

\* ---- C1 -----------------------------------------------------------------
\* C1 (as claimed): in both scripts, a run in which a required element did
\* not appear within its timeout ends in failure (uncaught exception,
\* non-zero exit), never as a normal run.
C1_RequiredTimeoutFailsRun ==
    (Done /\ RequiredWaitTimedOut) => outcome = "raised"

\* ---- C2 -----------------------------------------------------------------
\* C2: when no call raises (the application is reachable and every awaited
\* element appears), the script ends normally and has written exactly its
\* success screenshots: lesson_1_board.png then lesson_2_board.png for
\* verify_lesson, lesson_page.png (and no error_screenshot.png) for
\* verify_lesson_page.
C2_SuccessWritesScreenshots ==
    (Done /\ ~AnyRaise) =>
        /\ outcome = "ok"
        /\ files = IF script = "verify_lesson"
                   THEN <<Lesson1Png, Lesson2Png>>
                   ELSE <<LessonPagePng>>

C2_Witness ==
    /\ Done /\ ~AnyRaise /\ script = "verify_lesson"
    /\ Succeeded("wait_for_url(/)")
    /\ Succeeded("click(Let's Practice!)")

\* ---- C3 -----------------------------------------------------------------
\* C3 (as claimed): every execution of either script launches exactly one
\* browser and has performed browser.close() on it when the script ends,
\* on every path, with no browser action after the close.
C3_BrowserAlwaysClosed ==
    Done => /\ launches = 1
            /\ browser = "closed"
            /\ calls[Len(calls)] = Call("close", "ok")

\* ---- C4 -----------------------------------------------------------------
\* C4: in verify_lesson_page, a failure in the profile step or in the
\* story-button step is caught and logged and the script goes on: after a
\* profile failure /lesson/2 is navigated to next, after a story-button
\* failure the wait for .chess-board-container comes next, and a run that
\* ends with an uncaught exception ends with that of a goto or of the
\* board wait, never with that of either step.
C4_ProfileAndStoryFailuresContinue ==
    script = "verify_lesson_page" =>
      /\ \A c \in ProfileCallsB :
           (Raised(c) /\ pc # "B_profile_except") =>
              /\ InSeq(Line("Not on profile select or error: ", c), log)
              /\ pc = "B_goto_lesson2" \/ Attempted("goto(/lesson/2)")
      /\ \A c \in StoryCallsB :
           (Raised(c) /\ pc # "B_story_except") =>
              /\ InSeq(Line("Story button not found or error: ", c), log)
              /\ pc = "B_wait_board" \/ Attempted(BoardWait)
      /\ outcome = "raised" => exc \in {"goto(/)", "goto(/lesson/2)", BoardWait}

C4_Witness ==
    /\ script = "verify_lesson_page" /\ Done /\ outcome = "ok"
    /\ \E c \in ProfileCallsB : Raised(c)
    /\ \E c \in StoryCallsB : Raised(c)

\* ---- C5 -----------------------------------------------------------------
\* C5: in verify_lesson, when a call of the profile step raises, the
\* failure is logged and re-raised: the function is left with that
\* exception, no lesson page is navigated to and no screenshot is written.
C5_ProfileFailureAborts ==
    script = "verify_lesson" =>
      \A c \in ProfileCallsA :
         Raised(c) =>
           /\ pc \in {"A_profile_except", "A_main_except", "A_finally", "done"}
           /\ pc # "A_profile_except" => InSeq(Line("Profile selection failed: ", c), log)
           /\ pc = "A_main_except" => exc = c
           /\ ~Attempted("goto(/lesson/1)") /\ ~Attempted("goto(/lesson/2)")
           /\ files = <<>>

C5_Witness ==
    /\ script = "verify_lesson" /\ Done
    /\ Raised("wait_for_url(/)")

\* ---- C6 -----------------------------------------------------------------
\* The i-th call came after a successful goto(page) and, on that page,
\* after each wait of ws succeeded and none of them raised.
RenderedBefore(i, page, ws) ==
    \E g \in 1..(i - 1) :
       /\ calls[g] = Call(page, "ok")
       /\ \A m \in (g + 1)..(i - 1) :
             calls[m].c \notin {"goto(/)", "goto(/lesson/1)", "goto(/lesson/2)"}
       /\ \A w \in ws :
             /\ \E m \in (g + 1)..(i - 1) : calls[m] = Call(w, "ok")
             /\ \A m \in (g + 1)..(i - 1) : calls[m] # Call(w, "raise")

ScreenshotCalls == SelectSeq(calls, LAMBDA x : x.c = "screenshot")

\* C6: the files written are those of the screenshot calls, and a success
\* screenshot is taken only after the waits that assert its page rendered
\* succeeded on that page: lesson_1_board.png after .lesson-page on
\* /lesson/1, lesson_2_board.png after .lesson-page and svg on /lesson/2,
\* lesson_page.png after .chess-board-container on /lesson/2; never after
\* a failed wait for its page.
C6_ScreenshotOnlyAfterWait ==
    /\ files = [i \in 1..Len(ScreenshotCalls) |-> ScreenshotCalls[i].r]
    /\ \A i \in 1..Len(calls) :
         calls[i].c = "screenshot" =>
           CASE calls[i].r = Lesson1Png ->
                  RenderedBefore(i, "goto(/lesson/1)", {"wait_for_selector(.lesson-page)"})
             [] calls[i].r = Lesson2Png ->
                  RenderedBefore(i, "goto(/lesson/2)",
                                 {"wait_for_selector(.lesson-page)", "wait_for_selector(svg)"})
             [] calls[i].r = LessonPagePng ->
                  RenderedBefore(i, "goto(/lesson/2)", {BoardWait})
             [] OTHER -> calls[i].r = ErrorPng

C6_Witness ==
    /\ InSeq(Lesson1Png, files) /\ InSeq(Lesson2Png, files)

\* ---- C7 -----------------------------------------------------------------
\* C7: in verify_lesson_page, when the wait for .chess-board-container
\* times out, error_screenshot.png is written before the exception leaves
\* run(), lesson_page.png is not written, and error_screenshot.png is
\* written in no other situation.
C7_ErrorScreenshotOnBoardTimeout ==
    /\ InSeq(ErrorPng, files) => (script = "verify_lesson_page" /\ Raised(BoardWait))
    /\ script = "verify_lesson_page" =>
         /\ (Raised(BoardWait) /\ pc # "B_board_except") =>
               /\ InSeq(ErrorPng, files)
               /\ outcome = "raised" /\ exc = BoardWait
         /\ Raised(BoardWait) => ~InSeq(LessonPagePng, files)

C7_Witness ==
    /\ script = "verify_lesson_page" /\ Done
    /\ Raised(BoardWait) /\ files = <<ErrorPng>>

\* ---- C8 -----------------------------------------------------------------
ProfilesPageDetected == InSeq(Line("On profiles page", ""), log)

ProfilePicked ==
    \/ Succeeded("fill(#profile-name,TestUser)") /\ Succeeded("click(Let's Play!)")
    \/ Succeeded("click(.profile-content-btn.first)")

\* C8 (as claimed): in verify_lesson, when the profiles page was detected
\* and the profile step did not raise, lesson 1 is navigated to only after
\* a profile was created or selected and the URL returned to the root.
C8_ProfilePickedBeforeLessons ==
    (script = "verify_lesson" /\ ProfilesPageDetected /\ Attempted("goto(/lesson/1)"))
        => (ProfilePicked /\ Succeeded("wait_for_url(/)"))

\* ---- C9 -----------------------------------------------------------------
\* C9: every execution of either script terminates, whatever the
\* application does: it reaches normal completion or a raised exception.
C9_Terminates == <>Done

C9_Witness ==
    /\ Done /\ AnyRaise /\ Len(emitted) = MaxEvents

\* ---- C10 ----------------------------------------------------------------
BrowserLines == SelectSeq(log, LAMBDA l : l[1] \in {"BROWSER CONSOLE: ", "BROWSER ERROR: "})

Dispatched == [i \in 1..Len(emitted) |-> Dispatch(emitted[i])]

\* C10: in verify_lesson_page both handlers are registered before the
\* first navigation, every event the page emits is printed, in emission
\* order, and a handler's run changes nothing but the log: not the
\* script's position, the calls it makes, the page it is on, the files
\* written or the way it ends.
C10_EventsLoggedInOrder ==
    /\ [](script = "verify_lesson_page" =>
            /\ Navigated => handlers = {"console", "pageerror"}
            /\ BrowserLines = Dispatched)
    /\ [][emitted' # emitted =>
            UNCHANGED <<script, pc, browser, launches, url, calls, files, exc,
                        outcome, handlers>>]_vars

C10_Witness ==
    /\ script = "verify_lesson_page" /\ Done
    /\ Len(emitted) = 2 /\ emitted[1] # emitted[2]
    /\ BrowserLines = <<Dispatch(emitted[1]), Dispatch(emitted[2])>>

====
